---- MODULE Spec2Model ----
(***************************************************************************)
(* A model of app.py: the greedy allocation distribute_str_qty_greedy and  *)
(* the results section of the script that parses the text input, calls the *)
(* allocation and derives the per-inverter metrics and ILR statistics.     *)
(*                                                                         *)
(* Two specifications are given.  Spec is one run of the results section   *)
(* after "Run Distribution" was pressed, with the inputs the sidebar       *)
(* widgets can deliver.  CoreSpec is one call of distribute_str_qty_greedy *)
(* with arbitrary integer arguments.                                       *)
(***************************************************************************)
EXTENDS Integers, Sequences, FiniteSets

VARIABLES
    str_input,       \* the text of the "String quantities" widget, a sequence of characters
    num_inverters,   \* "Number of inverters"
    power_inverter,  \* "Inverter AC power (kVA)"
    str_moduleqty,   \* "Modules per string"
    pot_module,      \* "Module power (W)"
    pc,              \* the position of the run
    str_qty,         \* the parsed list of quantities
    str_qty_sorted,  \* the local of distribute_str_qty_greedy
    k,               \* the position of the for loop in str_qty_sorted (1-based)
    lines,           \* the groups
    sums,            \* the running sums
    data,            \* the summary rows built so far
    stats,           \* ilr_mean, ilr_min, ilr_max, ilr_std
    raised,          \* the exception in flight or last raised, NoException if none
    shown            \* what the run displayed: NothingShown, an error message or the results

vars == <<str_input, num_inverters, power_inverter, str_moduleqty, pot_module, pc,
          str_qty, str_qty_sorted, k, lines, sums, data, stats, raised, shown>>

inputVars == <<str_input, num_inverters, power_inverter, str_moduleqty, pot_module>>

(***************************************************************************)
(* Bounds of the model.                                                    *)
(***************************************************************************)
MaxLen == 4         \* longest quantities list handed to a direct call
MaxQty == 3         \* largest quantity in a direct call
MaxInverters == 3   \* largest number of inverters
MaxTokens == 3      \* most comma-separated fields of the text input

QtyValues == (-1)..MaxQty

RECURSIVE SeqsUpTo(_, _)
SeqsUpTo(S, n) ==
    IF n = 0 THEN {<<>>}
    ELSE LET shorter == SeqsUpTo(S, n - 1)
         IN shorter \cup {Append(s, x) : s \in {t \in shorter : Len(t) = n - 1}, x \in S}

(***************************************************************************)
(* Helpers on sequences of integers.                                       *)
(***************************************************************************)
RECURSIVE SumSeq(_)
SumSeq(s) == IF s = <<>> THEN 0 ELSE s[1] + SumSeq(Tail(s))

Range(s) == {s[i] : i \in 1..Len(s)}

MinOf(s) == CHOOSE m \in Range(s) : \A x \in Range(s) : m <= x

MaxOf(s) == CHOOSE m \in Range(s) : \A x \in Range(s) : x <= m

\* The number of elements of s equal to v.
Occ(s, v) == Cardinality({i \in 1..Len(s) : s[i] = v})

(***************************************************************************)
(* distribute_str_qty_greedy, its pieces.                                  *)
(***************************************************************************)

\* Insert x in a descending sequence, after the elements equal to it (stable).
RECURSIVE InsertDesc(_, _)
InsertDesc(s, x) ==
    IF s = <<>> THEN <<x>>
    ELSE IF s[1] >= x THEN <<s[1]>> \o InsertDesc(Tail(s), x)
    ELSE <<x>> \o s

RECURSIVE SortedDescUpTo(_, _)
SortedDescUpTo(s, n) ==
    IF n = 0 THEN <<>> ELSE InsertDesc(SortedDescUpTo(s, n - 1), s[n])

\* sorted(str_qty, reverse=True)
SortedDesc(s) == SortedDescUpTo(s, Len(s))

\* range(num_inverters) and [0] * num_inverters: empty when num_inverters <= 0
Slots(n) == 1..(IF n > 0 THEN n ELSE 0)

OneGroupFewer(n) == [i \in Slots(n - 1) |-> <<>>]

\* [[] for _ in range(num_inverters)]
EmptyLines(n) == [i \in Slots(n) |-> <<>>]

\* [0] * num_inverters
ZeroSums(n) == [i \in Slots(n) |-> 0]

LastMinIndex(s) ==
    CHOOSE i \in 1..Len(s) : s[i] = MinOf(s) /\ \A j \in (i + 1)..Len(s) : s[j] # MinOf(s)

MaxIndex(s) ==
    CHOOSE i \in 1..Len(s) : s[i] = MaxOf(s) /\ \A j \in 1..(i - 1) : s[j] # MaxOf(s)

\* sums.index(min(sums)), 1-based: list.index returns the first position holding the value
MinIndex(s) ==
    CHOOSE i \in 1..Len(s) : s[i] = MinOf(s) /\ \A j \in 1..(i - 1) : s[j] # MinOf(s)

ReplaceGroup(ls, idx, number) == [ls EXCEPT ![idx] = <<number>>]

\* lines[idx].append(number)
AppendAt(ls, idx, number) == [ls EXCEPT ![idx] = Append(@, number)]

AssignAt(ss, idx, number) == [ss EXCEPT ![idx] = number]

\* sums[idx] += number
AddAt(ss, idx, number) == [ss EXCEPT ![idx] = @ + number]

(***************************************************************************)
(* Python floats, modelled exactly: num/den in lowest terms with den > 0,  *)
(* or the square root of such a fraction (root = 2), or NaN.               *)
(***************************************************************************)
Abs(n) == IF n < 0 THEN -n ELSE n

RECURSIVE GCD(_, _)
GCD(a, b) == IF b = 0 THEN a ELSE GCD(b, a % b)

Frac(n, d) ==
    LET g == GCD(Abs(n), d) IN [num |-> n \div g, den |-> d \div g, root |-> 1]

Zero == Frac(0, 1)

NaN == [num |-> 0, den |-> 0, root |-> 0]

LCM(a, b) == (a \div GCD(a, b)) * b

FAdd(a, b) ==
    LET d == LCM(a.den, b.den) IN Frac(a.num * (d \div a.den) + b.num * (d \div b.den), d)

FSub(a, b) ==
    LET d == LCM(a.den, b.den) IN Frac(a.num * (d \div a.den) - b.num * (d \div b.den), d)

FMul(a, b) == Frac(a.num * b.num, a.den * b.den)

\* a / n for an integer n > 0
FDivInt(a, n) == Frac(a.num, a.den * n)

FLeq(a, b) == a.num * b.den <= b.num * a.den

\* math.sqrt of a fraction q >= 0, kept symbolic unless q = 0
FSqrt(q) == IF q.num = 0 THEN Zero ELSE [num |-> q.num, den |-> q.den, root |-> 2]

RECURSIVE FSum(_)
FSum(s) == IF s = <<>> THEN Zero ELSE FAdd(s[1], FSum(Tail(s)))

(***************************************************************************)
(* The outcome of evaluating a Python expression: a value or an exception. *)
(***************************************************************************)
\* A piece of fixed text in a message, kept whole; a message is a sequence of such
\* pieces and of character sequences interpolated in it.
Text(literal) == <<literal>>

NoException == [type |-> "None", arg |-> <<>>]

Value(v) == [raises |-> FALSE, exc |-> NoException, value |-> v]

Raise(type, arg) == [raises |-> TRUE, exc |-> [type |-> type, arg |-> arg], value |-> NaN]

\* min() of an empty list
MinOfEmpty == Raise("ValueError", <<Text("min() arg is an empty sequence")>>).exc

(***************************************************************************)
(* The text input: a sequence of characters.                               *)
(***************************************************************************)
Digits == <<"0", "1", "2", "3", "4", "5", "6", "7", "8", "9">>

IsDigit(c) == \E d \in 1..10 : Digits[d] = c

DigitValue(c) == (CHOOSE d \in 1..10 : Digits[d] = c) - 1

\* str.split(","): the fields between the commas, at least one
RECURSIVE SplitFrom(_, _, _)
SplitFrom(text, i, field) ==
    IF i > Len(text) THEN <<field>>
    ELSE IF text[i] = "," THEN <<field>> \o SplitFrom(text, i + 1, <<>>)
    ELSE SplitFrom(text, i + 1, Append(field, text[i]))

Split(text) == SplitFrom(text, 1, <<>>)

\* str.strip(): without the leading and the trailing white space
RECURSIVE LStrip(_)
LStrip(s) == IF s # <<>> /\ s[1] = " " THEN LStrip(Tail(s)) ELSE s

RECURSIVE RStrip(_)
RStrip(s) == IF s # <<>> /\ s[Len(s)] = " " THEN RStrip(SubSeq(s, 1, Len(s) - 1)) ELSE s

Strip(s) == RStrip(LStrip(s))

\* int(s) accepts an optional sign followed by at least one digit
IsIntLiteral(s) ==
    LET body == IF s # <<>> /\ s[1] \in {"-", "+"} THEN Tail(s) ELSE s
    IN body # <<>> /\ \A i \in 1..Len(body) : IsDigit(body[i])

RECURSIVE DigitsValue(_)
DigitsValue(s) ==
    IF s = <<>> THEN 0 ELSE 10 * DigitsValue(SubSeq(s, 1, Len(s) - 1)) + DigitValue(s[Len(s)])

\* int(s): the value, or ValueError naming the literal
ToInt(s) ==
    IF ~IsIntLiteral(s) THEN Raise("ValueError", <<Text("invalid literal for int() with base 10: "), s>>)
    ELSE IF s[1] = "-" THEN Value(-DigitsValue(Tail(s)))
    ELSE IF s[1] = "+" THEN Value(DigitsValue(Tail(s)))
    ELSE Value(DigitsValue(s))

SkipNonIntegers(text) ==
    SelectSeq([i \in 1..Len(Split(text)) |-> Strip(Split(text)[i])], IsIntLiteral)

\* x.strip() for x in str_input.split(",") if x.strip()
Fields(text) ==
    SelectSeq([i \in 1..Len(Split(text)) |-> Strip(Split(text)[i])], LAMBDA f : f # <<>>)

\* [int(x.strip()) for x in str_input.split(",") if x.strip()]: the first int() that
\* raises ends the comprehension
ParseList(text) ==
    LET fs == Fields(text)
        bad == {i \in 1..Len(fs) : ToInt(fs[i]).raises}
    IN IF bad = {} THEN Value([i \in 1..Len(fs) |-> ToInt(fs[i]).value])
       ELSE ToInt(fs[CHOOSE i \in bad : \A j \in bad : i <= j])

(***************************************************************************)
(* The metrics.                                                            *)
(***************************************************************************)
\* total_strings * str_moduleqty * (pot_module / 1000.0)
DcPowerKw(total_strings, moduleqty, pot) == FMul(Frac(total_strings * moduleqty, 1), Frac(pot, 1000))

\* a / b on floats: ZeroDivisionError when b is 0
TrueDiv(a, b) ==
    IF b = 0 THEN Raise("ZeroDivisionError", <<Text("float division by zero")>>)
    ELSE Value(FDivInt(a, b))

UnguardedIlr(dc_power_kw, power) == TrueDiv(dc_power_kw, power)

\* dc_power_kw / power_inverter if power_inverter > 0 else 0
Ilr(dc_power_kw, power) == IF power > 0 THEN TrueDiv(dc_power_kw, power) ELSE Value(Zero)

\* Series.mean()
SeriesMean(col) == IF col = <<>> THEN NaN ELSE FDivInt(FSum(col), Len(col))

\* Series.min()
SeriesMin(col) ==
    IF col = <<>> THEN NaN ELSE CHOOSE m \in Range(col) : \A x \in Range(col) : FLeq(m, x)

\* Series.max()
SeriesMax(col) ==
    IF col = <<>> THEN NaN ELSE CHOOSE m \in Range(col) : \A x \in Range(col) : FLeq(x, m)

\* Series.std(): the sample standard deviation (ddof = 1), NaN when there are not
\* more values than ddof
SeriesStd(col) ==
    IF Len(col) <= 1 THEN NaN
    ELSE LET mean == SeriesMean(col)
             sq == [i \in 1..Len(col) |-> FMul(FSub(col[i], mean), FSub(col[i], mean))]
         IN FSqrt(FDivInt(FSum(sq), Len(col) - 1))

(***************************************************************************)
(* What is displayed.                                                      *)
(***************************************************************************)
NothingShown == [kind |-> "nothing", message |-> <<>>]

\* st.error(message)
StError(message) == [kind |-> "error", message |-> message]

EmptyListMessage == <<Text("Please provide at least one string quantity.")>>

ParseErrorMessage ==
    <<Text("Error parsing string list. Use only integers separated by commas.")>>

\* f"Unexpected error: {e}"
UnexpectedErrorMessage(exc) == <<Text("Unexpected error: ")>> \o exc.arg

(***************************************************************************)
(* The call of distribute_str_qty_greedy.                                  *)
(***************************************************************************)

\* Lines 89-91: the sort and the empty groups.
DistributeEntry ==
    /\ pc = "call"
    /\ str_qty_sorted' = SortedDesc(str_qty)
    /\ lines' = EmptyLines(num_inverters)
    /\ sums' = ZeroSums(num_inverters)
    /\ k' = 1
    /\ pc' = "loop"
    /\ UNCHANGED <<inputVars, str_qty, data, stats, raised, shown>>

\* Lines 93-96: one iteration of the for loop, with at least one group.
LoopStep ==
    /\ pc = "loop"
    /\ k <= Len(str_qty_sorted)
    /\ Len(sums) > 0
    /\ LET number == str_qty_sorted[k]
           idx == MinIndex(sums)
       IN /\ lines' = AppendAt(lines, idx, number)
          /\ sums' = AddAt(sums, idx, number)
    /\ k' = k + 1
    /\ UNCHANGED <<inputVars, pc, str_qty, str_qty_sorted, data, stats, raised, shown>>

\* Line 94 with no group: min(sums) raises ValueError and the call is left.
LoopMinError ==
    /\ pc = "loop"
    /\ k <= Len(str_qty_sorted)
    /\ Len(sums) = 0
    /\ raised' = MinOfEmpty
    /\ pc' = "raised"
    /\ UNCHANGED <<inputVars, str_qty, str_qty_sorted, k, lines, sums, data, stats, shown>>

\* Line 98: the loop is exhausted.
Return ==
    /\ pc = "loop"
    /\ k > Len(str_qty_sorted)
    /\ pc' = "returned"
    /\ UNCHANGED <<inputVars, str_qty, str_qty_sorted, k, lines, sums, data, stats, raised, shown>>

(***************************************************************************)
(* CoreSpec: a direct call distribute_str_qty_greedy(str_qty, n).          *)
(***************************************************************************)
CoreInit ==
    /\ str_qty \in SeqsUpTo(QtyValues, MaxLen)
    /\ num_inverters \in (-1)..MaxInverters
    /\ pc = "call"
    /\ str_input = <<>>
    /\ power_inverter = 0
    /\ str_moduleqty = 1
    /\ pot_module = 1
    /\ str_qty_sorted = <<>>
    /\ k = 1
    /\ lines = <<>>
    /\ sums = <<>>
    /\ data = <<>>
    /\ stats = <<>>
    /\ raised = NoException
    /\ shown = NothingShown

CoreNext == DistributeEntry \/ LoopStep \/ LoopMinError \/ Return

CoreSpec == CoreInit /\ [][CoreNext]_vars
(***************************************************************************)
(* The results section of the script, lines 217-333.                       *)
(***************************************************************************)

\* Line 220, every field an integer.
ParseOk ==
    /\ pc = "start"
    /\ ~ParseList(str_input).raises
    /\ str_qty' = ParseList(str_input).value
    /\ pc' = "parsed"
    /\ UNCHANGED <<inputVars, str_qty_sorted, k, lines, sums, data, stats, raised, shown>>

\* Line 220, int() raises ValueError.
ParseValueError ==
    /\ pc = "start"
    /\ ParseList(str_input).raises
    /\ raised' = ParseList(str_input).exc
    /\ pc' = "raised"
    /\ UNCHANGED <<inputVars, str_qty, str_qty_sorted, k, lines, sums, data, stats, shown>>

\* len(str_qty) == 0
NoQuantity(q) == Len(q) = 0

\* Lines 221-222.
EmptyList ==
    /\ pc = "parsed"
    /\ NoQuantity(str_qty)
    /\ shown' = StError(EmptyListMessage)
    /\ pc' = "done"
    /\ UNCHANGED <<inputVars, str_qty, str_qty_sorted, k, lines, sums, data, stats, raised>>

\* Lines 223-224: the call of distribute_str_qty_greedy(str_qty, num_inverters).
NonEmptyList ==
    /\ pc = "parsed"
    /\ ~NoQuantity(str_qty)
    /\ pc' = "call"
    /\ UNCHANGED <<inputVars, str_qty, str_qty_sorted, k, lines, sums, data, stats, raised, shown>>

\* Lines 228-236: one iteration of the loop over line_sums.
BuildRow ==
    /\ pc = "returned"
    /\ Len(data) < Len(sums)
    /\ LET total_strings == sums[Len(data) + 1]
           dc_power_kw == DcPowerKw(total_strings, str_moduleqty, pot_module)
           ilr == Ilr(dc_power_kw, power_inverter)
       IN IF ilr.raises
          THEN /\ raised' = ilr.exc
               /\ pc' = "raised"
               /\ data' = data
          ELSE /\ data' = Append(data, [Inverter |-> Len(data) + 1,
                                        TotalStrings |-> total_strings,
                                        DcPowerKw |-> dc_power_kw,
                                        ILR |-> ilr.value])
               /\ UNCHANGED <<raised, pc>>
    /\ UNCHANGED <<inputVars, str_qty, str_qty_sorted, k, lines, sums, stats, shown>>

\* Lines 238-246: the ILR column and its statistics.
Statistics ==
    /\ pc = "returned"
    /\ Len(data) = Len(sums)
    /\ LET col == [i \in 1..Len(data) |-> data[i].ILR]
       IN stats' = [ilr_mean |-> SeriesMean(col),
                    ilr_min |-> SeriesMin(col),
                    ilr_max |-> SeriesMax(col),
                    ilr_std |-> SeriesStd(col)]
    /\ pc' = "statistics"
    /\ UNCHANGED <<inputVars, str_qty, str_qty_sorted, k, lines, sums, data, raised, shown>>

\* Lines 248-328: the statistics card, the per-inverter cards, the table and the plots.
Render ==
    /\ pc = "statistics"
    /\ shown' = [kind |-> "results", message |-> <<>>]
    /\ pc' = "done"
    /\ UNCHANGED <<inputVars, str_qty, str_qty_sorted, k, lines, sums, data, stats, raised>>

\* Lines 330-333: the except clauses of the try statement.
ExceptHandler ==
    /\ pc = "raised"
    /\ shown' = IF raised.type = "ValueError"
                THEN StError(ParseErrorMessage)
                ELSE StError(UnexpectedErrorMessage(raised))
    /\ pc' = "done"
    /\ UNCHANGED <<inputVars, str_qty, str_qty_sorted, k, lines, sums, data, stats, raised>>

(***************************************************************************)
(* Spec: one run of the results section with the widgets' values.          *)
(***************************************************************************)

\* The fields the text input is assembled from.
Tokens == {<<"2">>, <<" ", "1", "0">>, <<"a">>, <<>>, <<" ">>, <<"-", "1">>}

RECURSIVE Join(_)
Join(ts) == IF Len(ts) = 1 THEN ts[1] ELSE ts[1] \o <<",">> \o Join(Tail(ts))

Texts == {Join(ts) : ts \in SeqsUpTo(Tokens, MaxTokens) \ {<<>>}}

\* number_input(min_value=0.0) in kVA
PowerInverters == {0, 2}

\* number_input(min_value=1)
StrModuleQtys == {1, 3}

\* number_input(min_value=1.0) in W
PotModules == {500, 625}

Init ==
    /\ str_input \in Texts
    /\ num_inverters \in 1..MaxInverters
    /\ power_inverter \in PowerInverters
    /\ str_moduleqty \in StrModuleQtys
    /\ pot_module \in PotModules
    /\ pc = "start"
    /\ str_qty = <<>>
    /\ str_qty_sorted = <<>>
    /\ k = 1
    /\ lines = <<>>
    /\ sums = <<>>
    /\ data = <<>>
    /\ stats = <<>>
    /\ raised = NoException
    /\ shown = NothingShown

\* num_inverters >= 1 here (the widget's min_value), so line 94 never sees an empty
\* sums and LoopMinError is no step of a run of the script.
Next ==
    \/ ParseOk
    \/ ParseValueError
    \/ EmptyList
    \/ NonEmptyList
    \/ DistributeEntry
    \/ LoopStep
    \/ Return
    \/ BuildRow
    \/ Statistics
    \/ Render
    \/ ExceptHandler

Spec == Init /\ [][Next]_vars
(***************************************************************************)
(* The claims.                                                             *)
(***************************************************************************)
NonNegative(s) == \A i \in 1..Len(s) : s[i] >= 0

\* The number of occurrences of v in all the groups together.
OccLines(v) == SumSeq([i \in 1..Len(lines) |-> Occ(lines[i], v)])

\* The part of the sorted sequence the loop has not processed yet.
Remaining == SubSeq(str_qty_sorted, k, Len(str_qty_sorted))

PlacedValues == UNION {Range(lines[i]) : i \in 1..Len(lines)}

\* C1 (conservation): for every list of non-negative quantities and every
\* num_inverters >= 1, the sums returned by distribute_str_qty_greedy add up to
\* exactly the sum of the input quantities.
C1_Conservation ==
    (pc = "returned" /\ num_inverters >= 1 /\ NonNegative(str_qty))
        => SumSeq(sums) = SumSeq(str_qty)

\* A call that returned with four quantities spread over two non-empty groups.
C1_Witness ==
    /\ pc = "returned"
    /\ num_inverters = 2
    /\ Len(str_qty) = 4
    /\ NonNegative(str_qty)
    /\ sums[1] > 0
    /\ sums[2] > 0
    /\ SumSeq(sums) = SumSeq(str_qty)

\* C2 (partition): at every step of the allocation loop the values already appended
\* to the groups together with the values of the sorted sequence not yet processed
\* form exactly the input multiset; at return every input value occurs in exactly one
\* group, and each sum is the sum of the values of its group.
C2_Partition ==
    (pc \in {"loop", "returned"} /\ num_inverters >= 1)
        => /\ \A v \in Range(str_qty) \cup Range(str_qty_sorted) \cup PlacedValues :
                  OccLines(v) + Occ(Remaining, v) = Occ(str_qty, v)
           /\ Len(sums) = Len(lines)
           /\ \A i \in 1..Len(lines) : sums[i] = SumSeq(lines[i])
           /\ pc = "returned" => Remaining = <<>>

\* The loop half way through an input with a repeated value, a group already
\* holding two values.
C2_Witness ==
    /\ pc = "loop"
    /\ num_inverters = 2
    /\ Len(str_qty) = 4
    /\ k = 4
    /\ \E v \in Range(str_qty) : Occ(str_qty, v) >= 2
    /\ \E i \in 1..Len(lines) : Len(lines[i]) = 2
    /\ Remaining # <<>>

\* C3 (group count): for every num_inverters >= 1 the allocation returns exactly
\* num_inverters groups and num_inverters sums; with more inverters than quantities
\* the extra groups are empty with sum 0, and with no quantity all groups are empty
\* and all sums 0.
C3_GroupCount ==
    (pc = "returned" /\ num_inverters >= 1)
        => /\ Len(lines) = num_inverters
           /\ Len(sums) = num_inverters
           /\ Cardinality({i \in 1..Len(lines) : i \in 1..Len(sums) /\ lines[i] = <<>> /\ sums[i] = 0})
                  >= num_inverters - Len(str_qty)
           /\ str_qty = <<>> =>
                  \A i \in 1..num_inverters : lines[i] = <<>> /\ sums[i] = 0

\* A call that returned with more inverters than quantities: the third group is
\* empty with sum 0.
C3_Witness ==
    /\ pc = "returned"
    /\ num_inverters = 3
    /\ Len(str_qty) = 2
    /\ lines[3] = <<>>
    /\ sums[3] = 0
    /\ lines[1] # <<>>

\* The largest input value, 0 for the empty input.
MaxInput == IF str_qty = <<>> THEN 0 ELSE MaxOf(str_qty)

\* C4 (balance): for non-negative quantities and num_inverters >= 1, after every
\* placement and at return the largest and the smallest group sum differ by at most
\* the largest single input value (0 for the empty input).
C4_Balance ==
    (pc \in {"loop", "returned"} /\ num_inverters >= 1 /\ NonNegative(str_qty))
        => MaxOf(sums) - MinOf(sums) <= MaxInput

\* A returned allocation in which the bound is met with equality on groups that
\* each hold several values.
C4_Witness ==
    /\ pc = "returned"
    /\ num_inverters = 2
    /\ NonNegative(str_qty)
    /\ Len(lines[1]) >= 2
    /\ Len(lines[2]) >= 2
    /\ MaxOf(sums) - MinOf(sums) = MaxInput
    /\ MaxInput > 0

\* C5 (greedy step): values are placed in descending order; each value is appended
\* to the group whose running sum is minimal, the lowest-indexed one on a tie; only
\* that group's list and sum change.
C5_GreedyStep ==
    [][(pc = "loop" /\ k' = k + 1) =>
          LET number == str_qty_sorted[k]
          IN /\ \A j \in k..Len(str_qty_sorted) : str_qty_sorted[j] <= number
             /\ k > 1 => number <= str_qty_sorted[k - 1]
             /\ Len(lines') = Len(lines)
             /\ Len(sums') = Len(sums)
             /\ \E idx \in 1..Len(sums) :
                    /\ \A j \in 1..Len(sums) : sums[idx] <= sums[j]
                    /\ \A j \in 1..(idx - 1) : sums[j] > sums[idx]
                    /\ lines'[idx] = Append(lines[idx], number)
                    /\ sums'[idx] = sums[idx] + number
                    /\ \A j \in 1..Len(sums) :
                           j # idx => lines'[j] = lines[j] /\ sums'[j] = sums[j]]_vars

\* After two equal values went to groups 1 and 2, the tie between the two sums was
\* resolved to group 1.
C5_Witness ==
    /\ pc = "loop"
    /\ str_qty_sorted = <<2, 2, 1, 1>>
    /\ lines = <<<<2, 1>>, <<2>>>>
    /\ sums = <<3, 2>>
    /\ k = 4

\* C6 (invalid configuration): a call with num_inverters < 1 fails with an
\* InvalidConfiguration error for every quantities list; it never returns an
\* allocation and never fails with another kind of error.
C6_InvalidConfiguration ==
    num_inverters < 1
        => /\ pc # "returned"
           /\ pc = "raised" => raised.type = "InvalidConfiguration"

\* C7 (negative quantities rejected): with a negative quantity in the list the
\* allocation fails with an InvalidInput error and produces no groups or sums; the
\* negative value is never placed in a group.
C7_NegativeRejected ==
    ~NonNegative(str_qty)
        => /\ \A v \in PlacedValues : v >= 0
           /\ pc \notin {"returned", "statistics"}
           /\ pc = "done" => shown.kind = "error"
           /\ pc = "raised" => raised.type = "InvalidInput"

\* C8 (single-slot standard deviation): with the metrics computed over exactly one
\* inverter slot the reported standard deviation of the loading ratios is 0.0, not
\* NaN.
C8_SingleSlotStd ==
    (pc \in {"statistics", "done"} /\ shown.kind # "error" /\ num_inverters = 1)
        => stats.ilr_std = Zero

\* C9 (zero AC rating): with inverter_ac_kva = 0 every loading ratio is the sentinel
\* 0 and the metrics are computed for all groups without a division error; with
\* inverter_ac_kva > 0 the loading ratio is dc_power_kw / inverter_ac_kva.
C9_ZeroAcRating ==
    /\ raised.type # "ZeroDivisionError"
    /\ shown.kind = "error" => shown.message # UnexpectedErrorMessage(raised)
    /\ \A i \in 1..Len(data) :
           /\ data[i].DcPowerKw = Frac(sums[i] * str_moduleqty * pot_module, 1000)
           /\ power_inverter = 0 => data[i].ILR = Zero
           /\ power_inverter > 0 =>
                  /\ data[i].ILR.root = 1
                  /\ data[i].ILR.num * data[i].DcPowerKw.den * power_inverter
                         = data[i].DcPowerKw.num * data[i].ILR.den
    /\ pc \in {"statistics", "done"} /\ shown.kind # "error" => Len(data) = num_inverters

\* A run with a zero AC rating that showed the results of two loaded inverters.
C9_Witness ==
    /\ pc = "done"
    /\ shown.kind = "results"
    /\ power_inverter = 0
    /\ num_inverters = 2
    /\ Len(data) = 2
    /\ sums[1] > 0
    /\ sums[2] > 0
    /\ data[1].DcPowerKw # Zero
    /\ data[1].ILR = Zero
    /\ data[2].ILR = Zero

\* The stripped, non-empty fields of the text that are no integer literal.
BadFields ==
    {f \in {Strip(Split(str_input)[i]) : i \in 1..Len(Split(str_input))} :
        f # <<>> /\ ~IsIntLiteral(f)}

\* The text holds no quantity: every field is empty once stripped.
NoQuantityText == \A i \in 1..Len(Split(str_input)) : Strip(Split(str_input)[i]) = <<>>

\* The run computed or showed an allocation or metrics.
Computed ==
    \/ pc \in {"call", "loop", "returned", "statistics"}
    \/ lines # <<>>
    \/ sums # <<>>
    \/ data # <<>>
    \/ stats # <<>>
    \/ shown.kind = "results"

====
